---- MODULE Spec2Model ----
(***************************************************************************)
(* Scrape / compare / notify / persist cycle of the scraper notifier, in   *)
(* its long-running mode (main.py) and its single-shot mode                *)
(* (scraper_single_run.py), with the change detector (src/differ.py), the  *)
(* product record (src/scraper.py), the notifier (src/notifier.py) and the *)
(* configuration check (src/config.py).                                    *)
(*                                                                         *)
(* A product is modelled by its sku, its price, its title and its discount *)
(* label; the title stands for the required fields that are neither        *)
(* identity nor price (title, url, image), the discount for the optional   *)
(* ones (original_price, discount).  Prices are integers (cents).          *)
(***************************************************************************)
EXTENDS Integers, Sequences, FiniteSets, TLC

\* ------------------------------------------------------------------ bounds
\* longest product list acquired from the page or found in the state file
MaxLen == 2
\* config.check_interval, in seconds (CHECK_INTERVAL of the environment)
CheckInterval == 2
\* seconds counted after a shutdown signal (the count stops there)
MaxCountedTicks == 2
\* the cooldown of the scheduling loop, in seconds: asyncio.sleep(60)
Cooldown == 60

Skus == {"A", "B"}
Prices == {10, 20}
Titles == {"t1", "t2"}

\* the value of an optional field that is absent (Python's None)
None == "None"
Discounts == {None, "10% off"}

\* ----------------------------------------------------------- product record
\* Product.__init__: the product objects of the model (the second title is
\* that of sku "A" at the lower price only, and it alone carries a discount)
Product == {p \in [sku : Skus, title : Titles, price : Prices, discount : Discounts] : (p.title = "t2" => (p.sku = "A" /\ p.price = 10)) /\ (p.discount /= None <=> p.title = "t2")}

\* the keys Product.from_dict reads with data[...] (a missing one is a KeyError)
RequiredKeys == {"sku", "title", "price"}

\* Product.to_dict: the plain key-value form of a product
to_dict(p) == [sku |-> p.sku, title |-> p.title, price |-> p.price, discount |-> p.discount]

\* can Product.from_dict / p['sku'] read this raw record without a KeyError
Readable(d) == RequiredKeys \subseteq DOMAIN d

\* Product.from_dict: the product of a raw record (data[...] for the
\* required keys, data.get(...) for the optional one)
from_dict(d) == [sku |-> d.sku, title |-> d.title, price |-> d.price, discount |-> IF "discount" \in DOMAIN d THEN d.discount ELSE None]

\* [p.to_dict() for p in current_products]
ToDicts(products) == [i \in 1..Len(products) |-> to_dict(products[i])]

\* sequences over S of length at most n
SeqsUpTo(S, n) == UNION {[1..k -> S] : k \in 0..n}

\* the product lists the page can yield
ProductLists == SeqsUpTo(Product, MaxLen)

\* a raw record of the state file that lacks a required key (a file written
\* by hand or by another version of the program)
BadRaw == [sku |-> "A", title |-> "t1"]

\* a raw record of the state file without the optional key
OldRaw == [sku |-> "B", title |-> "t1", price |-> 20]

\* a state file holding the raw records l
FileOf(l) == [status |-> "ok", records |-> l]

\* the contents of the state file: no file, an unparseable file, or a list
\* of raw records
FileContents == {[status |-> "absent", records |-> <<>>], [status |-> "corrupt", records |-> <<>>]} \cup {FileOf(ToDicts(l)) : l \in ProductLists} \cup {FileOf(<<BadRaw>>), FileOf(<<OldRaw>>)}

\* ---------------------------------------------------------- change detector
\* the skus of a list of records
SkusOf(list) == {list[i].sku : i \in 1..Len(list)}

\* {p.sku: p for p in list}: a later record replaces an earlier one of its sku
IndexBySku(list) == [s \in SkusOf(list) |-> list[CHOOSE i \in 1..Len(list) : list[i].sku = s /\ \A j \in 1..Len(list) : list[j].sku = s => j <= i]]

\* new_skus computed without subtracting the previous keys
NewSkus_KeepsPrevious(prev, cur) == SkusOf(cur)

\* new_skus = set(current.keys()) - set(previous.keys())
NewSkus(prev, cur) == SkusOf(cur) \ SkusOf(prev)

\* removed_skus = set(previous.keys()) - set(current.keys())
RemovedSkus(prev, cur) == SkusOf(prev) \ SkusOf(cur)

\* common_skus = set(current.keys()) & set(previous.keys())
CommonSkus(prev, cur) == SkusOf(cur) \cap SkusOf(prev)

\* a comparison of the whole records in place of the prices
PriceDiffers_WholeRecord(p, c) == p /= c

\* if prev_product.price != curr_product.price
PriceDiffers(p, c) == p.price /= c.price

\* every common sku taken as changed (the price test left out)
ChangedSkus_AllCommon(prev, cur) == CommonSkus(prev, cur)

\* the skus of common_skus whose entry is appended to price_changes
ChangedSkus(prev, cur) == {s \in CommonSkus(prev, cur) : PriceDiffers(from_dict(IndexBySku(prev)[s]), IndexBySku(cur)[s])}

\* the entry appended to diff.price_changes
PriceChange(p, c) == [product |-> c, old_price |-> p.price, new_price |-> c.price, change |-> c.price - p.price]

\* an iteration over a list of skus that can hold a sku more than once
Orderings_WithRepeats(S) == [1..Cardinality(S) -> S]

\* the orders in which a Python set of skus can be iterated
Orderings(S) == {q \in [1..Cardinality(S) -> S] : \A i, j \in 1..Cardinality(S) : q[i] = q[j] => i = j}

\* Differ.compare: the reports it can return (one per iteration order of the
\* three sku sets)
compare(prev, cur) == {[new_products |-> [i \in 1..Len(n) |-> IndexBySku(cur)[n[i]]], removed_products |-> [i \in 1..Len(r) |-> from_dict(IndexBySku(prev)[r[i]])], price_changes |-> [i \in 1..Len(c) |-> PriceChange(from_dict(IndexBySku(prev)[c[i]]), IndexBySku(cur)[c[i]])]] : n \in Orderings(NewSkus(prev, cur)), r \in Orderings(RemovedSkus(prev, cur)), c \in Orderings(ChangedSkus(prev, cur))}

\* does Differ.compare raise (a raw record without a key it reads)
CompareRaises(prev) == \E i \in 1..Len(prev) : ~Readable(prev[i])

\* Differ.is_first_run
is_first_run(prev) == Len(prev) = 0

\* ProductDiff.has_changes
has_changes(d) == Len(d.new_products) > 0 \/ Len(d.removed_products) > 0 \/ Len(d.price_changes) > 0

\* ProductDiff.__init__: the empty report
EmptyDiff == [new_products |-> <<>>, removed_products |-> <<>>, price_changes |-> <<>>]

\* the sends send_diff_notifications makes for a report, in order: new,
\* then removed, then price changes
Items(d) == [i \in 1..Len(d.new_products) |-> [kind |-> "new", sku |-> d.new_products[i].sku]] \o [i \in 1..Len(d.removed_products) |-> [kind |-> "removed", sku |-> d.removed_products[i].sku]] \o [i \in 1..Len(d.price_changes) |-> [kind |-> "price", sku |-> d.price_changes[i].product.sku]]

\* ------------------------------------------------------------------- state
VARIABLES
    mode,        \* "long" (main.py) or "single" (scraper_single_run.py)
    cfg,         \* what config.validate finds: "ok", "no_token", "no_chat", "no_site"
    running,     \* the global flag of main.py
    sched,       \* position of main() (the scheduler)
    tick,        \* seconds slept in the current interval wait or cooldown
    exitCode,    \* the exit status of the process, -1 while it runs
    cyc,         \* position of the cycle coroutine
    thr,         \* position of the worker thread of asyncio.to_thread
    file,        \* the contents of the state file
    fileAtStart, \* the contents of the state file when the cycle began
    previous,    \* previous_products of the cycle
    current,     \* current_products of the cycle
    diff,        \* the report of Differ.compare
    attempts,    \* outcome of each per-item send made so far in this cycle
    errAttempts, \* outcome of each send of an error notification in this cycle
    saveCalls,   \* calls of storage.save_state in this cycle
    compareRan,  \* Differ.compare was called in this cycle
    firstRun,    \* the cycle took the first-run branch
    failStage,   \* the stage whose exception the cycle caught, or "none"
    result,      \* how the last cycle ended: "none", "success", "aborted", "failed", "escaped"
    ret,         \* the value the cycle returned: "unset", "None", "True", "False"
    inflight,    \* cycle coroutines started and not yet finished
    signalAt,    \* where the scheduler was when the shutdown signal arrived: "none", "cycle", "interval", "cooldown"
    ticksAfterSignal \* seconds the scheduler has slept since that signal, up to MaxCountedTicks

vars == <<mode, cfg, running, sched, tick, exitCode, cyc, thr, file, fileAtStart, previous, current, diff, attempts, errAttempts, saveCalls, compareRan, firstRun, failStage, result, ret, inflight, signalAt, ticksAfterSignal>>

schedVars == <<sched, tick, exitCode>>
cycleLocals == <<fileAtStart, previous, current, diff, attempts, errAttempts, saveCalls, compareRan, firstRun, failStage>>
sigVars == <<running, signalAt, ticksAfterSignal>>

\* the positions of the scheduler between two cycles
Waiting == {"loop_top", "wait_check", "sleeping", "after_wait", "cooldown"}

\* the locals of a cycle that has not begun
ClearLocals ==
    /\ previous' = <<>>
    /\ current' = <<>>
    /\ diff' = EmptyDiff
    /\ attempts' = <<>>
    /\ errAttempts' = <<>>
    /\ saveCalls' = 0
    /\ compareRan' = FALSE
    /\ firstRun' = FALSE
    /\ failStage' = "none"

Init ==
    /\ mode \in {"long", "single"}
    /\ cfg \in {"ok", "no_token", "no_chat", "no_site"}
    /\ running = TRUE
    /\ sched = IF mode = "long" THEN "validate" ELSE "single_call"
    /\ tick = 0
    /\ exitCode = -1
    /\ cyc = "idle"
    /\ thr = "idle"
    /\ file \in FileContents
    /\ fileAtStart = file
    /\ previous = <<>>
    /\ current = <<>>
    /\ diff = EmptyDiff
    /\ attempts = <<>>
    /\ errAttempts = <<>>
    /\ saveCalls = 0
    /\ compareRan = FALSE
    /\ firstRun = FALSE
    /\ failStage = "none"
    /\ result = "none"
    /\ ret = "unset"
    /\ inflight = 0
    /\ signalAt = "none"
    /\ ticksAfterSignal = 0

\* ----------------------------------------------------------- signal handler
\* signal_handler: running = False (SIGINT or SIGTERM, once main() has
\* registered it)
signal_handler ==
    /\ mode = "long"
    /\ sched /= "exited"
    /\ running
    /\ running' = FALSE
    /\ signalAt' = (IF sched = "cooldown" THEN "cooldown" ELSE IF sched \in Waiting THEN "interval" ELSE "cycle")
    /\ UNCHANGED <<mode, cfg, schedVars, cyc, thr, file, cycleLocals, result, ret, inflight, ticksAfterSignal>>

\* --------------------------------------------------------------- scheduler
\* sys.exit(code) / the end of the process
Exit(code) ==
    /\ sched' = "exited"
    /\ exitCode' = code
    /\ tick' = 0

\* a call of run_scrape_cycle() (main.py) or the entry of main()
\* (scraper_single_run.py): the coroutine starts with fresh locals
BeginCycle(entry) ==
    /\ cyc' = entry
    /\ fileAtStart' = file
    /\ ClearLocals
    /\ result' = "none"
    /\ ret' = "unset"
    /\ inflight' = inflight + 1

\* a startup that logs the configuration error and goes on
Validate_NoExit ==
    /\ sched = "validate"
    /\ sched' = "test_conn"
    /\ UNCHANGED <<mode, cfg, sigVars, tick, exitCode, cyc, thr, file, cycleLocals, result, ret, inflight>>

\* main(): config.validate() and sys.exit(1) when it raises
Validate ==
    /\ sched = "validate"
    /\ IF cfg = "ok" THEN sched' = "test_conn" /\ UNCHANGED <<tick, exitCode>> ELSE Exit(1)
    /\ UNCHANGED <<mode, cfg, sigVars, cyc, thr, file, cycleLocals, result, ret, inflight>>

\* main(): test_telegram_connection() and sys.exit(1) when it is False
TestConnection ==
    /\ sched = "test_conn"
    /\ \E ok \in BOOLEAN : IF ok THEN sched' = "first_call" /\ UNCHANGED <<tick, exitCode>> ELSE Exit(1)
    /\ UNCHANGED <<mode, cfg, sigVars, cyc, thr, file, cycleLocals, result, ret, inflight>>

\* main(): "Run first cycle immediately": run_scrape_cycle() is called
FirstCall ==
    /\ sched = "first_call"
    /\ sched' = "first_await"
    /\ BeginCycle("spawn")
    /\ UNCHANGED <<mode, cfg, sigVars, tick, exitCode, thr, file>>

\* scraper_single_run.py: asyncio.run(main())
SingleCall ==
    /\ sched = "single_call"
    /\ sched' = "single_await"
    /\ BeginCycle("validate")
    /\ UNCHANGED <<mode, cfg, sigVars, tick, exitCode, thr, file>>

\* the scheduler goes on without awaiting the cycle it started
AwaitCycle_NoWait ==
    /\ sched \in {"first_await", "loop_await"}
    /\ sched' = "loop_top"
    /\ UNCHANGED <<mode, cfg, sigVars, tick, exitCode, cyc, thr, file, cycleLocals, result, ret, inflight>>

\* the scheduler's await of run_scrape_cycle() completes when the coroutine
\* has returned
AwaitCycle ==
    /\ sched \in {"first_await", "loop_await"}
    /\ cyc = "returned"
    /\ sched' = "loop_top"
    /\ cyc' = "idle"
    /\ ClearLocals
    /\ fileAtStart' = file
    /\ UNCHANGED <<mode, cfg, sigVars, tick, exitCode, thr, file, result, ret, inflight>>

\* an exit of the single-shot mode that does not look at what main() returned
SingleExit_AlwaysZero ==
    /\ sched = "single_await"
    /\ cyc = "returned"
    /\ Exit(0)
    /\ cyc' = "idle"
    /\ ClearLocals
    /\ fileAtStart' = file
    /\ UNCHANGED <<mode, cfg, sigVars, thr, file, result, ret, inflight>>

\* sys.exit(0 if success else 1) of scraper_single_run.py
SingleExit ==
    /\ sched = "single_await"
    /\ cyc = "returned"
    /\ Exit(IF ret = "True" THEN 0 ELSE 1)
    /\ cyc' = "idle"
    /\ ClearLocals
    /\ fileAtStart' = file
    /\ UNCHANGED <<mode, cfg, sigVars, thr, file, result, ret, inflight>>

\* while running: (the loop test)
LoopTop ==
    /\ sched = "loop_top"
    /\ sched' = IF running THEN "wait_check" ELSE "stopped"
    /\ tick' = 0
    /\ UNCHANGED <<mode, cfg, sigVars, exitCode, cyc, thr, file, cycleLocals, result, ret, inflight>>

\* for _ in range(config.check_interval): if not running: break
WaitCheck ==
    /\ sched = "wait_check"
    /\ sched' = IF tick < CheckInterval /\ running THEN "sleeping" ELSE "after_wait"
    /\ UNCHANGED <<mode, cfg, sigVars, tick, exitCode, cyc, thr, file, cycleLocals, result, ret, inflight>>

\* await asyncio.sleep(1)
SleepTick ==
    /\ sched = "sleeping"
    /\ sched' = "wait_check"
    /\ tick' = tick + 1
    /\ ticksAfterSignal' = IF signalAt \in {"interval", "cooldown"} /\ ticksAfterSignal < MaxCountedTicks THEN ticksAfterSignal + 1 ELSE ticksAfterSignal
    /\ UNCHANGED <<mode, cfg, running, signalAt, exitCode, cyc, thr, file, cycleLocals, result, ret, inflight>>

\* if running: await run_scrape_cycle()
AfterWait ==
    /\ sched = "after_wait"
    /\ IF running
       THEN sched' = "loop_await" /\ BeginCycle("spawn")
       ELSE sched' = "loop_top" /\ UNCHANGED <<cyc, cycleLocals, result, ret, inflight>>
    /\ UNCHANGED <<mode, cfg, sigVars, tick, exitCode, thr, file>>

\* an exception leaves run_scrape_cycle(): in the loop, except Exception
\* starts the cooldown; in the first call, outside the loop's try, and in
\* the single-shot mode it ends the process (exit status 1)
CycleRaised ==
    /\ sched \in {"first_await", "loop_await", "single_await"}
    /\ cyc = "escaped"
    /\ IF sched = "loop_await" THEN sched' = "cooldown" /\ tick' = 0 /\ UNCHANGED exitCode ELSE Exit(1)
    /\ cyc' = "idle"
    /\ ClearLocals
    /\ fileAtStart' = file
    /\ UNCHANGED <<mode, cfg, sigVars, thr, file, result, ret, inflight>>

\* await asyncio.sleep(60): one second of it passes
CooldownTick ==
    /\ sched = "cooldown"
    /\ tick < Cooldown
    /\ tick' = tick + 1
    /\ ticksAfterSignal' = IF signalAt \in {"interval", "cooldown"} /\ ticksAfterSignal < MaxCountedTicks THEN ticksAfterSignal + 1 ELSE ticksAfterSignal
    /\ UNCHANGED <<mode, cfg, running, signalAt, sched, exitCode, cyc, thr, file, cycleLocals, result, ret, inflight>>

\* await asyncio.sleep(60) returns and the loop resumes
CooldownEnd ==
    /\ sched = "cooldown"
    /\ tick = Cooldown
    /\ sched' = "loop_top"
    /\ tick' = 0
    /\ UNCHANGED <<mode, cfg, sigVars, exitCode, cyc, thr, file, cycleLocals, result, ret, inflight>>

\* logger.info("Scraper stopped"): main() returns
Stopped ==
    /\ sched = "stopped"
    /\ Exit(0)
    /\ UNCHANGED <<mode, cfg, sigVars, cyc, thr, file, cycleLocals, result, ret, inflight>>

\* ------------------------------------------------------------ snapshot store
\* Storage.load_state raises when the file exists and cannot be parsed
LoadRaises(f) == f.status = "corrupt"

\* storage.get_products_from_state(storage.load_state()): the raw records of
\* the file, none when there is no file
load_products(f) == IF f.status = "absent" THEN <<>> ELSE f.records

\* Storage.save_state: the file after saving the records (a full replacement)
save_state(f, records) == FileOf(records)

\* ------------------------------------------------------------------- cycle
\* what the coroutine returns: run_scrape_cycle has no return value (None on
\* every path); main() of scraper_single_run.py returns True or False
RetValue(res) == IF mode = "long" THEN "None" ELSE IF res = "success" THEN "True" ELSE "False"

\* the coroutine returns
Return(res) ==
    /\ cyc' = "returned"
    /\ result' = res
    /\ ret' = RetValue(res)
    /\ inflight' = inflight - 1

\* an exception reaches "except Exception" of the cycle: control leaves the
\* try block, whose locals previous_products, current_products and diff the
\* handler never reads
Raise(stage) ==
    /\ cyc' = "handler"
    /\ failStage' = stage
    /\ previous' = <<>>
    /\ current' = <<>>
    /\ diff' = EmptyDiff

\* scraper_single_run.py main(): config.validate() inside the try
CycleValidate ==
    /\ cyc = "validate"
    /\ IF cfg = "ok" THEN cyc' = "spawn" /\ UNCHANGED <<failStage, previous, current, diff>> ELSE Raise("validate")
    /\ UNCHANGED <<mode, cfg, sigVars, schedVars, thr, file, fileAtStart, attempts, errAttempts, saveCalls, compareRan, firstRun, result, ret, inflight>>

\* asyncio.to_thread(run_scrape_cycle_sync): the worker thread starts and the
\* coroutine waits for it
Spawn ==
    /\ cyc = "spawn"
    /\ cyc' = "await_thread"
    /\ thr' = "load"
    /\ UNCHANGED <<mode, cfg, sigVars, schedVars, file, cycleLocals, result, ret, inflight>>

\* a load that treats an unparseable file as no previous state
ThreadLoad_CorruptAsEmpty ==
    /\ thr = "load"
    /\ thr' = "scrape"
    /\ previous' = IF LoadRaises(file) THEN <<>> ELSE load_products(file)
    /\ UNCHANGED <<mode, cfg, sigVars, schedVars, cyc, file, fileAtStart, current, diff, attempts, errAttempts, saveCalls, compareRan, firstRun, failStage, result, ret, inflight>>

\* run_scrape_cycle_sync: load the previous state
ThreadLoad ==
    /\ thr = "load"
    /\ IF LoadRaises(file)
       THEN thr' = "raised_load" /\ UNCHANGED previous
       ELSE thr' = "scrape" /\ previous' = load_products(file)
    /\ UNCHANGED <<mode, cfg, sigVars, schedVars, cyc, file, fileAtStart, current, diff, attempts, errAttempts, saveCalls, compareRan, firstRun, failStage, result, ret, inflight>>

\* run_scrape_cycle_sync: scraper.scrape() returns a list or raises
ThreadScrape ==
    /\ thr = "scrape"
    /\ \/ \E c \in ProductLists : current' = c /\ thr' = "returned"
       \/ thr' = "raised_acquire" /\ UNCHANGED current
    /\ UNCHANGED <<mode, cfg, sigVars, schedVars, cyc, file, fileAtStart, previous, diff, attempts, errAttempts, saveCalls, compareRan, firstRun, failStage, result, ret, inflight>>

\* await asyncio.to_thread(...): resumes when the thread has finished, with
\* its pair of lists or with its exception
AwaitThread ==
    /\ cyc = "await_thread"
    /\ thr \in {"returned", "raised_load", "raised_acquire"}
    /\ IF thr = "returned"
       THEN cyc' = "check_empty" /\ UNCHANGED <<failStage, previous, current, diff>>
       ELSE Raise(IF thr = "raised_load" THEN "load" ELSE "acquire")
    /\ thr' = "idle"
    /\ UNCHANGED <<mode, cfg, sigVars, schedVars, file, fileAtStart, attempts, errAttempts, saveCalls, compareRan, firstRun, result, ret, inflight>>

\* the cycle goes on with an empty acquisition
CheckEmpty_NoAbort ==
    /\ cyc = "check_empty"
    /\ cyc' = "branch"
    /\ UNCHANGED <<mode, cfg, sigVars, schedVars, thr, file, cycleLocals, result, ret, inflight>>

\* if not current_products: return
CheckEmpty ==
    /\ cyc = "check_empty"
    /\ IF Len(current) = 0 THEN Return("aborted") ELSE cyc' = "branch" /\ UNCHANGED <<result, ret, inflight>>
    /\ UNCHANGED <<mode, cfg, sigVars, schedVars, thr, file, cycleLocals>>

\* a cycle that saves only when it found changes or runs for the first time
Branch_SavesOnlyChanges ==
    /\ cyc = "branch"
    /\ IF is_first_run(previous)
       THEN firstRun' = TRUE /\ cyc' = "save" /\ UNCHANGED <<previous, current, diff, compareRan, failStage, result, ret, inflight>>
       ELSE /\ compareRan' = TRUE
            /\ UNCHANGED firstRun
            /\ IF CompareRaises(previous)
               THEN Raise("compare") /\ UNCHANGED <<result, ret, inflight>>
               ELSE \E d \in compare(previous, current) :
                        /\ diff' = d
                        /\ IF has_changes(d) THEN cyc' = "notify" /\ UNCHANGED <<result, ret, inflight>> ELSE Return("success")
                        /\ UNCHANGED <<previous, current, failStage>>
    /\ UNCHANGED <<mode, cfg, sigVars, schedVars, thr, file, fileAtStart, attempts, errAttempts, saveCalls>>

\* the comparison run without the first-run test
Branch_NoFirstRun ==
    /\ cyc = "branch"
    /\ compareRan' = TRUE
    /\ IF CompareRaises(previous)
       THEN Raise("compare")
       ELSE \E d \in compare(previous, current) :
                /\ diff' = d
                /\ cyc' = IF has_changes(d) THEN "notify" ELSE "save"
                /\ UNCHANGED <<previous, current, failStage>>
    /\ UNCHANGED <<mode, cfg, sigVars, schedVars, thr, file, fileAtStart, attempts, errAttempts, saveCalls, firstRun, result, ret, inflight>>

\* if Differ.is_first_run(previous_products): ... else: diff = Differ.compare(...);
\* if diff.has_changes(): send the notifications
Branch ==
    /\ cyc = "branch"
    /\ IF is_first_run(previous)
       THEN firstRun' = TRUE /\ cyc' = "save" /\ UNCHANGED <<previous, current, diff, compareRan, failStage>>
       ELSE /\ compareRan' = TRUE
            /\ UNCHANGED firstRun
            /\ IF CompareRaises(previous)
               THEN Raise("compare")
               ELSE \E d \in compare(previous, current) :
                        /\ diff' = d
                        /\ cyc' = IF has_changes(d) THEN "notify" ELSE "save"
                        /\ UNCHANGED <<previous, current, failStage>>
    /\ UNCHANGED <<mode, cfg, sigVars, schedVars, thr, file, fileAtStart, attempts, errAttempts, saveCalls, result, ret, inflight>>

\* a per-item send that lets its TelegramError propagate (the try/except of
\* _send_*_notification left out)
SendItem_Propagates ==
    /\ cyc = "notify"
    /\ Len(attempts) < Len(Items(diff))
    /\ \E ok \in BOOLEAN :
           /\ attempts' = Append(attempts, ok)
           /\ IF ok
              THEN cyc' = (IF Len(attempts) + 1 = Len(Items(diff)) THEN "save" ELSE "notify") /\ UNCHANGED <<previous, current, diff, failStage>>
              ELSE Raise("notify")
    /\ UNCHANGED <<mode, cfg, sigVars, schedVars, thr, file, fileAtStart, errAttempts, saveCalls, compareRan, firstRun, result, ret, inflight>>

\* a notification loop that is left after its first item
SendItem_StopsAfterOne ==
    /\ cyc = "notify"
    /\ Len(attempts) < Len(Items(diff))
    /\ \E ok \in BOOLEAN : attempts' = Append(attempts, ok)
    /\ cyc' = "save"
    /\ UNCHANGED <<mode, cfg, sigVars, schedVars, thr, file, fileAtStart, previous, current, diff, errAttempts, saveCalls, compareRan, firstRun, failStage, result, ret, inflight>>

\* send_diff_notifications: the next item of the report is sent; a
\* TelegramError of the send is logged and the loop goes on
SendItem ==
    /\ cyc = "notify"
    /\ Len(attempts) < Len(Items(diff))
    /\ \E ok \in BOOLEAN : attempts' = Append(attempts, ok)
    /\ cyc' = IF Len(attempts) + 1 = Len(Items(diff)) THEN "save" ELSE "notify"
    /\ UNCHANGED <<mode, cfg, sigVars, schedVars, thr, file, fileAtStart, previous, current, diff, errAttempts, saveCalls, compareRan, firstRun, failStage, result, ret, inflight>>

\* products_dict = [p.to_dict() for p in current_products];
\* storage.save_state(products_dict): the file is replaced, or the write raises
Save ==
    /\ cyc = "save"
    /\ saveCalls' = saveCalls + 1
    /\ \/ file' = save_state(file, ToDicts(current)) /\ Return("success") /\ UNCHANGED <<previous, current, diff, failStage>>
       \/ Raise("save") /\ UNCHANGED <<file, result, ret, inflight>>
    /\ UNCHANGED <<mode, cfg, sigVars, schedVars, thr, fileAtStart, attempts, errAttempts, compareRan, firstRun>>

\* except Exception as e: logger.error(...); the handler goes on to the error
\* notification, or raises itself before its inner try
Handler ==
    /\ cyc = "handler"
    /\ \/ cyc' = "err_notify" /\ UNCHANGED <<result, ret, inflight>>
       \/ cyc' = "escaped" /\ result' = "escaped" /\ inflight' = inflight - 1 /\ UNCHANGED ret
    /\ UNCHANGED <<mode, cfg, sigVars, schedVars, thr, file, cycleLocals>>

\* can Bot(token=...) be constructed
NotifierConstructs == cfg /= "no_token"

\* can a send to the configured chat succeed
SendCanSucceed == cfg \notin {"no_token", "no_chat"}

\* an error notification whose failure leaves the handler as an exception
ErrorNotify_Propagates ==
    /\ cyc = "err_notify"
    /\ \E ok \in {b \in BOOLEAN : b => SendCanSucceed} :
           /\ errAttempts' = Append(errAttempts, ok)
           /\ IF ok
              THEN Return("failed")
              ELSE cyc' = "escaped" /\ result' = "escaped" /\ inflight' = inflight - 1 /\ UNCHANGED ret
    /\ UNCHANGED <<mode, cfg, sigVars, schedVars, thr, file, fileAtStart, previous, current, diff, attempts, saveCalls, compareRan, firstRun, failStage>>

\* try: notifier = TelegramNotifier(...); await notifier.send_error_notification(str(e))
\* except: swallowed; then the coroutine returns
ErrorNotify ==
    /\ cyc = "err_notify"
    /\ IF NotifierConstructs
       THEN \E ok \in {b \in BOOLEAN : b => SendCanSucceed} : errAttempts' = Append(errAttempts, ok)
       ELSE UNCHANGED errAttempts
    /\ Return("failed")
    /\ UNCHANGED <<mode, cfg, sigVars, schedVars, thr, file, fileAtStart, previous, current, diff, attempts, saveCalls, compareRan, firstRun, failStage>>

\* ------------------------------------------------------------ specification
Next ==
    \/ signal_handler
    \/ Validate
    \/ TestConnection
    \/ FirstCall
    \/ SingleCall
    \/ AwaitCycle
    \/ SingleExit
    \/ LoopTop
    \/ WaitCheck
    \/ SleepTick
    \/ AfterWait
    \/ CycleRaised
    \/ CooldownTick
    \/ CooldownEnd
    \/ Stopped
    \/ CycleValidate
    \/ Spawn
    \/ ThreadLoad
    \/ ThreadScrape
    \/ AwaitThread
    \/ CheckEmpty
    \/ Branch
    \/ SendItem
    \/ Save
    \/ Handler
    \/ ErrorNotify

Spec == Init /\ [][Next]_vars

\* the scheduler's own steps: awaits that complete and sleeps that end
SchedulerStep == AwaitCycle \/ LoopTop \/ WaitCheck \/ SleepTick \/ AfterWait \/ CycleRaised \/ CooldownTick \/ CooldownEnd \/ Stopped

\* the event loop resumes a coroutine whose await has completed
FairSpec == Spec /\ WF_vars(SchedulerStep)

\* ------------------------------------------------------------------ claims
\* the elements of a sequence
Elems(q) == {q[i] : i \in 1..Len(q)}

\* the last record of a list that carries sku s
LastWith(list, s) == list[CHOOSE i \in 1..Len(list) : list[i].sku = s /\ \A j \in (i + 1)..Len(list) : list[j].sku /= s]

\* the cycle holds the report of a comparison of previous and current
Compared == compareRan /\ failStage = "none" /\ cyc \in {"notify", "save", "returned"}

\* the stages of a cycle after the check of the acquired list
AfterCheck == {"branch", "notify", "save"}

\* C1: a cycle whose acquisition returned zero records never reaches the
\* first-run test, the comparison, the notifications or the save; it returns
\* with no change notification and no error notification sent, save never
\* called and the state file as it was when the cycle began
C1_ZeroRecordsAbort ==
    /\ cyc \in AfterCheck => Len(current) > 0
    /\ (cyc = "returned" /\ failStage = "none" /\ Len(current) = 0) =>
           /\ result = "aborted"
           /\ attempts = <<>>
           /\ errAttempts = <<>>
           /\ saveCalls = 0
           /\ ~compareRan
           /\ ~firstRun
           /\ file = fileAtStart

\* C1 witness: a cycle aborted on an empty acquisition over a non-empty snapshot
C1_Witness == cyc = "returned" /\ result = "aborted" /\ file.status = "ok" /\ Len(file.records) > 0

\* C2: in a cycle whose previous collection is empty and whose acquisition is
\* non-empty, no notification of any kind is sent, Differ.compare is not
\* called, and the cycle saves the serialized acquired list
C2_FirstRunSilent ==
    (cyc \in {"notify", "save", "returned"} /\ Len(current) > 0 /\ is_first_run(previous)) =>
        /\ firstRun
        /\ ~compareRan
        /\ attempts = <<>>
        /\ errAttempts = <<>>
        /\ cyc /= "notify"
        /\ cyc = "returned" => (result = "success" /\ saveCalls = 1 /\ file = FileOf(ToDicts(current)))

\* C2 witness: a first run that saved a list of two products
C2_Witness == cyc = "returned" /\ result = "success" /\ firstRun /\ Len(current) > 1 /\ fileAtStart.status = "absent"

\* C3: a cycle that began with an unparseable state file never acquires,
\* never takes the first-run branch, sends no change notification, never
\* calls save, leaves the file as it is and ends as a failure: of the load,
\* or of the configuration check that precedes it in the single-shot mode
C3_CorruptIsFailure ==
    (cyc /= "idle" /\ fileAtStart.status = "corrupt") =>
        /\ thr \notin {"scrape", "returned", "raised_acquire"}
        /\ cyc \notin AfterCheck \cup {"check_empty"}
        /\ ~firstRun
        /\ ~compareRan
        /\ attempts = <<>>
        /\ saveCalls = 0
        /\ file = fileAtStart
        /\ cyc = "returned" => (result = "failed" /\ failStage = IF cfg = "ok" THEN "load" ELSE "validate")

\* C3 witness: a cycle over a corrupt file has returned, its error
\* notification sent
C3_Witness == cyc = "returned" /\ fileAtStart.status = "corrupt" /\ result = "failed" /\ errAttempts = <<TRUE>>

\* C4 as stated: new is exactly the current records whose sku is absent from
\* previous, removed exactly the previous records whose sku is absent from
\* current
C4_Original ==
    Compared =>
        /\ Elems(diff.new_products) = {current[i] : i \in {j \in 1..Len(current) : current[j].sku \notin SkusOf(previous)}}
        /\ Elems(diff.removed_products) = {from_dict(previous[i]) : i \in {j \in 1..Len(previous) : previous[j].sku \notin SkusOf(current)}}

\* C4 amended: new holds exactly one record for each sku of current that is
\* absent from previous, the last current record of that sku; removed holds
\* exactly one record for each sku of previous absent from current, the last
\* previous record of that sku; when the sku sets are disjoint these cover
\* every sku of current and of previous and price_changes is empty
C4_NewAndRemoved ==
    Compared =>
        /\ \A i \in 1..Len(diff.new_products) :
               /\ diff.new_products[i].sku \in SkusOf(current)
               /\ diff.new_products[i].sku \notin SkusOf(previous)
               /\ diff.new_products[i] = LastWith(current, diff.new_products[i].sku)
        /\ \A s \in SkusOf(current) : s \notin SkusOf(previous) => Cardinality({i \in 1..Len(diff.new_products) : diff.new_products[i].sku = s}) = 1
        /\ \A i \in 1..Len(diff.removed_products) :
               /\ diff.removed_products[i].sku \in SkusOf(previous)
               /\ diff.removed_products[i].sku \notin SkusOf(current)
               /\ diff.removed_products[i] = from_dict(LastWith(previous, diff.removed_products[i].sku))
        /\ \A s \in SkusOf(previous) : s \notin SkusOf(current) => Cardinality({i \in 1..Len(diff.removed_products) : diff.removed_products[i].sku = s}) = 1
        /\ (SkusOf(previous) \cap SkusOf(current) = {}) =>
               /\ {diff.new_products[i].sku : i \in 1..Len(diff.new_products)} = SkusOf(current)
               /\ {diff.removed_products[i].sku : i \in 1..Len(diff.removed_products)} = SkusOf(previous)
               /\ diff.price_changes = <<>>

\* C4 witness: a comparison of lists with disjoint skus, one sku twice in current
C4_Witness == Compared /\ SkusOf(previous) \cap SkusOf(current) = {} /\ Len(current) > Cardinality(SkusOf(current)) /\ Len(diff.removed_products) = 1

\* C5: price_changes holds exactly one entry for each sku indexed on both
\* sides whose indexed prices differ and none for any other sku; the entry
\* carries the current record, the previous price, the current price and
\* their difference new - old; equal prices give no entry whatever the titles
C5_PriceChanges ==
    Compared =>
        /\ \A s \in Skus :
               Cardinality({i \in 1..Len(diff.price_changes) : diff.price_changes[i].product.sku = s})
                   = IF s \in SkusOf(previous) /\ s \in SkusOf(current) /\ LastWith(previous, s).price /= LastWith(current, s).price THEN 1 ELSE 0
        /\ \A i \in 1..Len(diff.price_changes) :
               LET e == diff.price_changes[i]
               IN  /\ e.product = LastWith(current, e.product.sku)
                   /\ e.old_price = LastWith(previous, e.product.sku).price
                   /\ e.new_price = e.product.price
                   /\ e.change = e.new_price - e.old_price

\* C5 witness: sku A on both sides at the same price under two titles, and
\* sku B on both sides at two prices
C5_Witness ==
    /\ Compared
    /\ Len(previous) = 2
    /\ Len(current) = 2
    /\ \E i, j \in 1..2 : previous[i].sku = "A" /\ current[j].sku = "A" /\ previous[i].price = current[j].price /\ previous[i].title /= current[j].title
    /\ Len(diff.price_changes) = 1
    /\ diff.price_changes[1].product.sku = "B"
    /\ diff.price_changes[1].change < 0

\* C6: no send of a change notification fails the cycle; whatever sends
\* failed, every item of the report has been attempted when the cycle
\* reaches the save, no error notification has been sent by then, and a
\* cycle that ends in failure failed in another stage
C6_SendFailuresContained ==
    /\ failStage /= "notify"
    /\ cyc = "notify" => (errAttempts = <<>> /\ Len(attempts) < Len(Items(diff)))
    /\ (cyc = "save" /\ compareRan) => (Len(attempts) = Len(Items(diff)) /\ errAttempts = <<>>)
    /\ (cyc = "returned" /\ result = "success") => (Len(attempts) = Len(Items(diff)) /\ errAttempts = <<>>)

\* C6 witness: a cycle completed its save after both of its sends failed
C6_Witness == cyc = "returned" /\ result = "success" /\ attempts = <<FALSE, FALSE>>

\* the stages C7 names
NamedStages == {"load", "acquire", "compare", "save"}

\* C7 as stated: a cycle that failed in loading, acquiring, comparing or
\* saving has attempted one error notification and returns a value that
\* tells the caller of the failure (one a successful cycle does not return)
C7_Original ==
    (cyc = "returned" /\ failStage \in NamedStages) =>
        /\ result = "failed"
        /\ Len(errAttempts) = 1
        /\ ret /= RetValue("success")

\* what C7 holds in every state: a caught exception of a named stage ends
\* the cycle as failed with exactly one error notification attempted, whose
\* failure is swallowed (the cycle still returns, and no exception that
\* leaves the cycle comes after an attempt); the single-shot main returns
\* False, run_scrape_cycle returns None as it does on success; and the
\* scheduler is never stopped by a failed cycle while running is set
C7_FailureContained ==
    /\ (cyc = "returned" /\ failStage \in NamedStages) =>
           /\ result = "failed"
           /\ Len(errAttempts) = 1
           /\ ret = IF mode = "single" THEN "False" ELSE "None"
    /\ result = "escaped" => errAttempts = <<>>
    /\ (mode = "long" /\ result = "failed" /\ running) => sched \notin {"stopped", "exited"}

\* C7 amended: C7_FailureContained always, and after any failed cycle of the
\* long-running mode another cycle is eventually started unless shutdown is
\* requested
C7_FailedCycleContained ==
    /\ []C7_FailureContained
    /\ (mode = "long" /\ cyc = "returned" /\ result = "failed") ~> (~running \/ (sched = "loop_await" /\ cyc = "spawn"))

\* C7 witness: a cycle of the loop failed in the save and its error
\* notification failed too
C7_Witness == sched = "loop_await" /\ cyc = "returned" /\ result = "failed" /\ failStage = "save" /\ errAttempts = <<FALSE>> /\ running

\* C8: a cycle that acquired a non-empty list and caught no exception ends
\* in success with save called once and the state file holding exactly the
\* serialized acquired list, on a first run, with changes and without
C8_SaveReplaces ==
    /\ (cyc = "returned" /\ failStage = "none" /\ Len(current) > 0) => result = "success"
    /\ (cyc = "returned" /\ result = "success") =>
           /\ Len(current) > 0
           /\ saveCalls = 1
           /\ file = FileOf(ToDicts(current))

\* C8 witness: a single-shot cycle without changes over a snapshot of two
\* records replaced it by its own serialized list
C8_Witness ==
    /\ mode = "single"
    /\ cyc = "returned"
    /\ result = "success"
    /\ compareRan
    /\ ~has_changes(diff)
    /\ Len(fileAtStart.records) = 2
    /\ file /= fileAtStart

\* C9: at most one cycle is in flight; while the scheduler is between two
\* cycles (the loop test, the interval wait, the cooldown) or has stopped no
\* cycle is in flight; and the worker thread has finished whenever the cycle
\* is past its await of the thread
C9_OneCycleAtATime ==
    /\ inflight \in {0, 1}
    /\ sched \in Waiting \cup {"stopped", "exited"} => (inflight = 0 /\ cyc = "idle" /\ thr = "idle")
    /\ cyc \in AfterCheck \cup {"check_empty", "handler", "err_notify", "returned"} => thr = "idle"
    /\ thr /= "idle" => (cyc = "await_thread" /\ inflight = 1)

\* C9 witness: the scheduler sleeps in the interval wait after a cycle of the
\* loop has saved
C9_Witness == sched = "sleeping" /\ tick = 1 /\ result = "success" /\ inflight = 0

\* C10: once the shutdown signal has arrived while the scheduler waited
\* between two cycles (in the interval wait or in the cooldown), the
\* scheduler sleeps at most one more second before it leaves the loop
C10_ShutdownWithinOneTick ==
    signalAt \in {"interval", "cooldown"} => ticksAfterSignal <= 1

\* the part of C10 the code keeps: a signal that arrives in the interval wait
\* is followed by at most one more second of sleep, and by no further cycle
C10_IntervalWaitPrompt ==
    signalAt = "interval" => (ticksAfterSignal <= 1 /\ sched \in Waiting \cup {"stopped", "exited"} /\ sched /= "cooldown")

\* a signal arrived in the first second of the interval wait and the
\* scheduler has left the loop
C10_IntervalWitness == signalAt = "interval" /\ ticksAfterSignal = 1 /\ sched = "exited"

\* the shutdown signal leaves the cycle in flight, the worker thread and the
\* state file as they are, and the process ends only when no cycle is in
\* flight
CycleNotInterrupted ==
    /\ [](sched \in {"stopped", "exited"} => (inflight = 0 /\ cyc = "idle" /\ thr = "idle"))
    /\ [][(running /\ ~running') => UNCHANGED <<cyc, thr, file, cycleLocals, result, ret, inflight>>]_vars

\* C11: a shutdown request never interrupts a cycle in flight (the cycle
\* runs on to its return, its save included, before the process ends), and
\* no cycle is started once the shutdown request has been made, the first
\* cycle at startup included
C11_NoCycleAfterShutdown ==
    /\ CycleNotInterrupted
    /\ [][(inflight' > inflight) => running]_vars

\* the part of C11 the code keeps: a cycle in flight is not interrupted, and
\* only the first cycle at startup can start after the shutdown request
C11_LoopStartsNoCycleAfterShutdown ==
    /\ CycleNotInterrupted
    /\ [][(inflight' > inflight /\ ~running) => sched = "first_call"]_vars

\* a cycle of the loop completed its save after the signal arrived while it
\* was in flight
C11_SavedAfterSignal == sched = "loop_await" /\ signalAt = "cycle" /\ cyc = "returned" /\ result = "success" /\ saveCalls = 1 /\ file /= fileAtStart

\* the first cycle at startup is in flight although the signal arrived during
\* the connectivity test
C11_FirstCycleAfterSignal == sched = "first_await" /\ ~running /\ cyc = "await_thread" /\ thr = "scrape"

\* C12: the single-shot mode starts one cycle, at its entry and never again;
\* that cycle returns True exactly when it caught no exception, acquired a
\* non-empty list and completed its one save of that list; the process exits
\* with status 0 exactly when the cycle returned True and with status 1
\* otherwise: on an empty acquisition, on an exception of the configuration
\* check, the load, the acquisition, the comparison or the save, and on an
\* exception that leaves main()
C12_SingleShotExit ==
    /\ [](mode = "single" /\ cyc = "returned" =>
             (ret = "True" <=> (failStage = "none" /\ Len(current) > 0 /\ saveCalls = 1 /\ file = FileOf(ToDicts(current)))))
    /\ [](mode = "single" /\ cyc = "returned" /\ (Len(current) = 0 \/ failStage /= "none") => ret = "False")
    /\ [](mode = "single" /\ sched = "exited" => (exitCode \in {0, 1} /\ result /= "none" /\ inflight = 0 /\ (exitCode = 0 <=> result = "success")))
    /\ [][(mode = "single" /\ sched /= "exited" /\ sched' = "exited") => (exitCode' = 0 <=> (cyc = "returned" /\ ret = "True"))]_vars
    /\ [][(mode = "single" /\ inflight' > inflight) => (sched = "single_call" /\ result = "none" /\ inflight = 0)]_vars
    /\ [][(sched' = "single_call") => (sched = "single_call")]_vars

\* C12 witness: the single-shot process has exited with status 0 over a
\* snapshot of two records written by its cycle
C12_Witness == mode = "single" /\ sched = "exited" /\ exitCode = 0 /\ result = "success" /\ Len(file.records) = 2

\* C13 as stated: in a run whose configuration is incomplete, in either
\* mode, nothing is loaded or acquired, no change notification and no error
\* notification is sent, the snapshot is not written and the process exits
\* with a non-zero status; and a long-running process that ends before its
\* first cycle (configuration error or failed connectivity test) ends with a
\* non-zero status
C13_Original ==
    /\ cfg /= "ok" =>
           /\ thr = "idle"
           /\ attempts = <<>>
           /\ errAttempts = <<>>
           /\ saveCalls = 0
           /\ file = fileAtStart
           /\ sched = "exited" => exitCode = 1
    /\ (mode = "long" /\ sched = "exited" /\ result = "none") => exitCode = 1

\* C13 amended: in the long-running mode a configuration error or a failed
\* connectivity test ends the process with status 1 before any cycle is
\* started (no cycle, no worker thread, no notification of changes or
\* errors, no snapshot write, and nothing happens after the exit); the
\* single-shot mode has no connectivity test and catches a configuration
\* error inside main(): nothing is loaded or acquired, no change
\* notification is sent, the snapshot is not written and the process exits
\* with status 1, but one error notification is attempted first when a bot
\* token is configured, and it can be delivered only when the chat id is
\* configured too
C13_StartupFailure ==
    /\ [](mode = "long" /\ cfg /= "ok" =>
             /\ sched \in {"validate", "exited"}
             /\ sched = "exited" => exitCode = 1)
    /\ [](mode = "long" /\ sched \in {"validate", "test_conn", "first_call"} \cup (IF result = "none" THEN {"exited"} ELSE {}) =>
             /\ cyc = "idle"
             /\ thr = "idle"
             /\ inflight = 0
             /\ attempts = <<>>
             /\ errAttempts = <<>>
             /\ saveCalls = 0
             /\ result = "none"
             /\ sched = "exited" => exitCode = 1)
    /\ [][(mode = "long" /\ sched = "test_conn" /\ sched' /= "test_conn") => ((sched' = "exited" /\ exitCode' = 1) \/ sched' = "first_call")]_vars
    /\ [][(sched \in {"validate", "test_conn", "exited"}) => UNCHANGED file]_vars
    /\ [][(sched = "exited") => UNCHANGED vars]_vars
    /\ [](mode = "single" /\ cfg /= "ok" =>
             /\ thr = "idle"
             /\ cyc \notin AfterCheck \cup {"spawn", "await_thread", "check_empty"}
             /\ attempts = <<>>
             /\ saveCalls = 0
             /\ ~compareRan
             /\ ~firstRun
             /\ file = fileAtStart
             /\ Len(errAttempts) <= 1
             /\ cfg = "no_token" => errAttempts = <<>>
             /\ cfg = "no_chat" => errAttempts \in {<<>>, <<FALSE>>}
             /\ cyc = "returned" => (ret = "False" /\ failStage = "validate" /\ (cfg /= "no_token" => Len(errAttempts) = 1))
             /\ sched = "exited" => exitCode = 1)

\* C13 witness: the single-shot main() has returned False on a missing site
\* configuration after its error notification was delivered
C13_Witness == mode = "single" /\ cfg = "no_site" /\ cyc = "returned" /\ ret = "False" /\ errAttempts = <<TRUE>> /\ file = fileAtStart

\* a long-running process has ended with status 1 on a failed connectivity test
C13_ConnectivityWitness == mode = "long" /\ cfg = "ok" /\ sched = "exited" /\ exitCode = 1 /\ result = "none"

\* the skus in ascending order
SkuOrder == <<"A", "B">>

\* the place of a sku in the ascending order
SkuRank(s) == CHOOSE i \in 1..Len(SkuOrder) : SkuOrder[i] = s

\* is a list of skus in strictly ascending order
Ascending(q) == \A i, j \in 1..Len(q) : i < j => SkuRank(q[i]) < SkuRank(q[j])

\* does a list of skus hold no sku twice
NoRepeat(q) == \A i, j \in 1..Len(q) : q[i] = q[j] => i = j

\* the skus of the three lists of a report, in list order
NewOrder(d) == [i \in 1..Len(d.new_products) |-> d.new_products[i].sku]
RemovedOrder(d) == [i \in 1..Len(d.removed_products) |-> d.removed_products[i].sku]
ChangedOrder(d) == [i \in 1..Len(d.price_changes) |-> d.price_changes[i].product.sku]

\* C14 as stated: each of new, removed and price_changes is in ascending sku
\* order (so that the comparison of given inputs has one possible report and
\* the notifications of a class go out in sku order)
C14_Original ==
    Compared =>
        /\ Ascending(NewOrder(diff))
        /\ Ascending(RemovedOrder(diff))
        /\ Ascending(ChangedOrder(diff))

\* C14 amended: the order inside each of new, removed and price_changes is
\* that of the iteration of a set of skus and is not fixed by the inputs;
\* each list holds one entry for each sku of its class and no sku twice,
\* every report the comparison of the same inputs can return holds the same
\* entries in each list, and the notifications are dispatched class by class
\* (new, removed, price changes), within a class in the order of its list
C14_OrderWithinReport ==
    Compared =>
        /\ NoRepeat(NewOrder(diff)) /\ Elems(NewOrder(diff)) = NewSkus(previous, current)
        /\ NoRepeat(RemovedOrder(diff)) /\ Elems(RemovedOrder(diff)) = RemovedSkus(previous, current)
        /\ NoRepeat(ChangedOrder(diff)) /\ Elems(ChangedOrder(diff)) = ChangedSkus(previous, current)
        /\ \A d \in compare(previous, current) :
               /\ Elems(d.new_products) = Elems(diff.new_products)
               /\ Elems(d.removed_products) = Elems(diff.removed_products)
               /\ Elems(d.price_changes) = Elems(diff.price_changes)
        /\ [i \in 1..Len(Items(diff)) |-> Items(diff)[i].sku] = NewOrder(diff) \o RemovedOrder(diff) \o ChangedOrder(diff)
        /\ \A i, j \in 1..Len(Items(diff)) : (i < j /\ Items(diff)[i].kind /= Items(diff)[j].kind) =>
               (Items(diff)[i].kind = "new" \/ Items(diff)[j].kind = "price")
        /\ Len(attempts) <= Len(Items(diff))

\* C14 witness: a cycle has dispatched two price changes, that of sku B
\* before that of sku A
C14_Witness == Compared /\ cyc = "returned" /\ ChangedOrder(diff) = <<"B", "A">> /\ Len(attempts) = 2

\* do two lists index the same skus at the same prices
SamePrices(prev, cur) == SkusOf(prev) = SkusOf(cur) /\ \A s \in SkusOf(cur) : LastWith(prev, s).price = LastWith(cur, s).price

DiffSkus(prev, cur) == {s \in Skus : (s \in SkusOf(prev)) /= (s \in SkusOf(cur)) \/ (s \in SkusOf(prev) /\ s \in SkusOf(cur) /\ LastWith(prev, s).price /= LastWith(cur, s).price)}

\* the skus for which a send has been attempted in this cycle
AttemptedSkus == {Items(diff)[i].sku : i \in 1..Len(attempts)}

\* C16: the state file changes only in the save of a cycle, to the acquired
\* list, and by then a send has been attempted for every entry of the
\* cycle's report, which has an entry for every sku the snapshot and the
\* acquired list index differently (on a first run there is no report and
\* nothing to send); until its save completes a cycle leaves the file as it
\* was when the cycle began, so a cycle that aborts, fails or lets its
\* exception escape leaves every difference to the next comparison
C16_SaveAfterNotify ==
    /\ [][(file' /= file) =>
             /\ cyc = "save"
             /\ cyc' = "returned"
             /\ result' = "success"
             /\ file' = FileOf(ToDicts(current))
             /\ Len(attempts) = Len(Items(diff))
             /\ IF compareRan THEN AttemptedSkus = DiffSkus(previous, current) ELSE (firstRun /\ attempts = <<>>)]_vars
    /\ [](cyc = "notify" => (saveCalls = 0 /\ file = fileAtStart))
    /\ []((cyc /= "idle" /\ ~(cyc = "returned" /\ result = "success")) => file = fileAtStart)
    /\ []((cyc \in {"returned", "escaped"} /\ result \in {"aborted", "failed", "escaped"}) => file = fileAtStart)
    /\ []((cyc = "returned" /\ result = "success" /\ compareRan) =>
             /\ previous = load_products(fileAtStart)
             /\ Len(attempts) = Len(Items(diff))
             /\ DiffSkus(previous, current) \subseteq AttemptedSkus)

\* C16 witness: a cycle replaced the snapshot after it had attempted the two
\* sends of its report, one of which failed
C16_Witness == cyc = "returned" /\ result = "success" /\ compareRan /\ attempts = <<FALSE, TRUE>> /\ file /= fileAtStart /\ Cardinality(DiffSkus(previous, current)) = 2

\* a cycle whose save raised after both sends of its report left the
\* snapshot as it was
C16_FailedSaveWitness == cyc = "returned" /\ result = "failed" /\ failStage = "save" /\ Len(attempts) = 2 /\ file = fileAtStart /\ file.status = "ok"

====
